---- MODULE Spec2Model ----
(***************************************************************************)
(* SwAV training driver (src/main_swav.py): the epoch loop of main(), the  *)
(* per-iteration body of train(), the memory queue, checkpoint and queue   *)
(* persistence, the learning-rate schedule and distributed_sinkhorn.       *)
(***************************************************************************)
EXTENDS Integers, Sequences, FiniteSets, TLC

\* ------------------------------------------------------------------ bounds
MaxEpochs == 2
MaxIters == 2
MaxQueue == 4
MaxLr == 2
MaxWorld == 2
MaxSinkhornIters == 1
MaxFreeze == 2
MaxRestarts == 1
MaxSnapshotEpochs == 3
NumWorkers == 2

\* os.environ["RANK"] = '0' and os.environ["WORLD_SIZE"] = '1' (module level)
RANK == 0
WORLD_SIZE == 1

BatchSizes == {1, 2}
CheckpointFreqs == {1, 2}
Workers == 1..NumWorkers
\* an absent tensor or file (no tensor and no file content is the empty tuple)
None == <<>>
NoneFor(S) == [x \in S |-> None]
\* no epoch: the mark of a queue file this run has not written
NotWritten == 0 - 1

\* args.crops_for_assign (default [0, 1])
crops_for_assign == <<0, 1>>
NAssign == Len(crops_for_assign)

\* ------------------------------------------------------------- embeddings
\* One row of the embedding tensor.  nz says whether the row has a non-zero
\* entry (what torch.all(row == 0) tests); stamp, crop and row are the
\* provenance of the row: the worker's iteration count when it was produced,
\* the crop it belongs to and its index within the batch.
Row(nz, stamp, crop, k) == [nz |-> nz, stamp |-> stamp, crop |-> crop, row |-> k]

\* torch.zeros(...): a never-written row
ZeroRow == Row(FALSE, 0, 0, 0)

\* a row of a queue file left in dump_path by an earlier run
StaleRow == Row(TRUE, 0, 0, 0)

\* embedding[crop_id * bs: (crop_id + 1) * bs] of the iteration stamped t
EmbeddingSlice(nz, t, crop_id, bs) == [k \in 1..bs |-> Row(nz, t, crop_id, k - 1)]

\* ------------------------------------------------------------------ state
VARIABLES
    cfg,            \* the parsed command line (args), fixed for the run
    pc,             \* pc[w]: where worker w is in main()
    rank,           \* args.rank of worker w
    queue_length,   \* args.queue_length of worker w
    epoch,          \* loop variable of main()
    it,             \* loop variable of train()
    queue,          \* the worker's queue tensor, or None
    use_the_queue,  \* local flag of train()
    ckpt,           \* checkpoint.pth.tar: None or the saved dictionary
    qfile,          \* queue<rank>.pth by rank: None or the stored tensor
    qepoch,         \* by rank: the epoch at whose end this run wrote the file,
                    \* NotWritten when this run has not written it
    snaps,          \* the files ckp-<e>.pth: the pairs <<e, stored dictionary>>
    writers,        \* every <<file, worker>> such that worker wrote file
    clock,          \* iterations worker w has run, over all its restarts
    consec,         \* queue updates since the worker's queue came to exist
    pooled,         \* per assign-crop: the last iteration pooled the queue
    start_epoch,    \* to_restore["epoch"] of the worker's last startup
    restarts,       \* interruptions so far
    lr_schedule,    \* the schedule built by main(), None before it is built
    assignments,    \* what distributed_sinkhorn returned, or None: per worker of
                    \* a group, or per assign-crop of one worker's loss loop
    frame,          \* train() run step by step: its position and its locals
    lr,             \* param_group["lr"] of the optimizer's parameter groups
    params,         \* the model's parameters: prototypes and all the others
    grads,          \* their .grad, None when there is none
    before,         \* the parameters as they were when optimizer.step() was called
    coll            \* per worker: its place in the loss loop of one iteration
                    \* run by a process group, and the sum-reductions it issued

mainVars == <<cfg, pc, rank, queue_length, epoch, it, queue, use_the_queue, ckpt,
          qfile, qepoch, snaps, writers, clock, consec, pooled, start_epoch, restarts>>

\* the state of the function-level specifications
stepVars == <<frame, lr, params, grads, before>>
auxVars == <<lr_schedule, assignments, stepVars, coll>>

vars == <<mainVars, auxVars>>

\* what a specification that does not build the schedule, run the solver or
\* step through train() leaves untouched
LrIdle == lr_schedule = None
SinkhornIdle == assignments = None
StepIdle ==
    /\ frame = None
    /\ lr = None
    /\ params = None
    /\ grads = None
    /\ before = None
CollIdle == coll = None

\* ------------------------------------------------------------ queue maths
\* the queue length kept as configured
TruncatedQueueLength_Keep(ql, bs, ws) == ql

\* args.queue_length -= args.queue_length % (args.batch_size * args.world_size)
TruncatedQueueLength(ql, bs, ws) == ql - (ql % (bs * ws))

\* torch.zeros(len(crops_for_assign), queue_length // world_size, feat_dim)
NewQueue(ql, ws) == [i \in 1..NAssign |-> [r \in 1..(ql \div ws) |-> ZeroRow]]

\* the batch appended behind the rows moved to the front
FillQueue_Tail(q, emb, bs) ==
    [r \in 1..Len(q) |-> IF r <= Len(q) - bs THEN q[r + bs] ELSE emb[r - (Len(q) - bs)]]

\* queue[i, bs:] = queue[i, :-bs].clone(); queue[i, :bs] = embedding[...]
FillQueue(q, emb, bs) ==
    [r \in 1..Len(q) |-> IF r <= bs THEN emb[r] ELSE q[r - bs]]

\* the first row tested instead of the last
LastRowNonZero_First(q) == Len(q) > 0 /\ q[1].nz

\* not torch.all(queue[i, -1, :] == 0)
LastRowNonZero(q) == Len(q) > 0 /\ q[Len(q)].nz

\* the flag alone, the last row never looked at
UseAfter_FlagOnly(u, q, i) == u

\* use_the_queue after the checks of assign-crops 1..i of one iteration
\* (if use_the_queue or not torch.all(queue[i, -1, :] == 0): use_the_queue = True)
RECURSIVE UseAfter(_, _, _)
UseAfter(u, q, i) ==
    IF i = 0 THEN u ELSE UseAfter(u, q, i - 1) \/ LastRowNonZero(q[i])

\* ---------------------------------------------------------- configuration
Configs ==
    [epochs : 1..MaxEpochs,
     iters : 1..MaxIters,
     batch_size : BatchSizes,
     queue_length : 0..MaxQueue,
     epoch_queue_starts : 0..(MaxEpochs - 1),
     checkpoint_freq : CheckpointFreqs]

\* a queue file left in dump_path by an earlier run with the same batch size:
\* one batch of rows
StaleQueue(c) ==
    [i \in 1..NAssign |-> [r \in 1..c.batch_size |-> StaleRow]]

\* The state after the script is launched as the processes of L, with command
\* line c, in a dump_path that holds the queue file qf and no checkpoint.
\* The launcher hands process w the rank w - 1 in its environment.
Launched(L, c, qf) ==
    /\ cfg = c
    /\ pc = [w \in Workers |-> IF w \in L THEN "start" ELSE "off"]
    /\ rank = [w \in Workers |-> w - 1]
    /\ queue_length = [w \in Workers |-> c.queue_length]
    /\ epoch = [w \in Workers |-> 0]
    /\ it = [w \in Workers |-> 0]
    /\ queue = NoneFor(Workers)
    /\ use_the_queue = [w \in Workers |-> FALSE]
    /\ ckpt = None
    /\ qfile = [NoneFor(0..(NumWorkers - 1)) EXCEPT ![RANK] = qf]
    /\ qepoch = [r \in 0..(NumWorkers - 1) |-> NotWritten]
    /\ snaps = {}
    /\ writers = {}
    /\ clock = [w \in Workers |-> 0]
    /\ consec = [w \in Workers |-> 0]
    /\ pooled = [w \in Workers |-> [i \in 1..NAssign |-> FALSE]]
    /\ start_epoch = [w \in Workers |-> 0]
    /\ restarts = 0
    /\ LrIdle
    /\ SinkhornIdle
    /\ StepIdle
    /\ CollIdle

\* single node, single GPU: one process
Init ==
    \E c \in Configs : \E qf \in {None, StaleQueue(c)} : Launched({1}, c, qf)

\* the script launched once per worker, in a fresh dump_path
SmallConfigs ==
    {c \in Configs : /\ c.iters = 1
                     /\ c.batch_size = 1
                     /\ c.queue_length <= 1
                     /\ c.epoch_queue_starts = 0
                     /\ c.checkpoint_freq = 1}

InitWorkers ==
    \E c \in SmallConfigs : Launched(Workers, c, None)

\* runs long enough to have an epoch that is neither a multiple of
\* checkpoint_freq nor the last one: one process, one batch per epoch
SnapshotConfigs ==
    [epochs : 1..MaxSnapshotEpochs,
     iters : {1},
     batch_size : {1},
     queue_length : {0, 1},
     epoch_queue_starts : {0, 1},
     checkpoint_freq : CheckpointFreqs]

InitSnapshots ==
    \E c \in SnapshotConfigs : Launched({1}, c, None)

\* ---------------------------------------------------------------- startup
\* init_distributed_mode(args): args.rank and args.world_size are read from
\* the environment, which the module has just set to RANK and WORLD_SIZE.
EnvRank(w) == RANK
EnvWorldSize(w) == WORLD_SIZE

\* the stored counter ignored
RestoredEpoch_Zero(c) == 0

\* restart_from_checkpoint(..., run_variables=to_restore): the stored epoch
\* counter when the checkpoint file exists, else to_restore stays {"epoch": 0}
RestoredEpoch(c) == IF c = None THEN 0 ELSE c.epoch

\* main() up to the epoch loop
Startup(w) ==
    /\ pc[w] = "start"
    /\ rank' = [rank EXCEPT ![w] = EnvRank(w)]
    /\ start_epoch' = [start_epoch EXCEPT ![w] = RestoredEpoch(ckpt)]
    /\ epoch' = [epoch EXCEPT ![w] = RestoredEpoch(ckpt)]
    /\ queue' = [queue EXCEPT ![w] = qfile[EnvRank(w)]]
    /\ queue_length' = [queue_length EXCEPT ![w] =
           TruncatedQueueLength(cfg.queue_length, cfg.batch_size, EnvWorldSize(w))]
    /\ consec' = [consec EXCEPT ![w] = 0]
    /\ pc' = [pc EXCEPT ![w] = "loop"]
    /\ UNCHANGED <<auxVars, cfg, it, use_the_queue, ckpt, qfile, qepoch, snaps, writers, clock,
                   pooled, restarts>>

\* ------------------------------------------------------------- epoch loop
\* if args.queue_length > 0 and epoch >= args.epoch_queue_starts and queue is None
StartsQueue(w) ==
    /\ queue_length[w] > 0
    /\ epoch[w] >= cfg.epoch_queue_starts
    /\ queue[w] = None

\* for epoch in range(start_epoch, args.epochs): the head of one pass, up to
\* the call of train() and its first lines (use_the_queue = False)
EpochBegin(w) ==
    /\ pc[w] = "loop"
    /\ epoch[w] < cfg.epochs
    /\ queue' = [queue EXCEPT ![w] =
           IF StartsQueue(w) THEN NewQueue(queue_length[w], EnvWorldSize(w)) ELSE @]
    /\ consec' = [consec EXCEPT ![w] = IF StartsQueue(w) THEN 0 ELSE @]
    /\ use_the_queue' = [use_the_queue EXCEPT ![w] = FALSE]
    /\ it' = [it EXCEPT ![w] = 0]
    /\ pc' = [pc EXCEPT ![w] = "train"]
    /\ UNCHANGED <<auxVars, cfg, rank, queue_length, epoch, ckpt, qfile, qepoch, snaps, writers,
                   clock, pooled, start_epoch, restarts>>

\* the loop is exhausted: writer.flush() and return
Finish(w) ==
    /\ pc[w] = "loop"
    /\ epoch[w] >= cfg.epochs
    /\ pc' = [pc EXCEPT ![w] = "done"]
    /\ UNCHANGED <<auxVars, cfg, rank, queue_length, epoch, it, queue, use_the_queue, ckpt,
                   qfile, qepoch, snaps, writers, clock, consec, pooled,
                   start_epoch, restarts>>

\* ------------------------------------------------------ training iteration
\* does assign-crop i pool the queue in an iteration that starts with flag u
Pools(u, q, i) == q # None /\ UseAfter(u, q, i)

\* only the first assign-crop's queue is updated
QueueAfter_FirstOnly(q, nz, t, bs) ==
    IF q = None THEN None
    ELSE [i \in 1..NAssign |->
             IF i = 1
             THEN FillQueue(q[i], EmbeddingSlice(nz, t, crops_for_assign[i], bs), bs)
             ELSE q[i]]

\* the queue after the iteration stamped t: every assign-crop is updated
QueueAfter(q, nz, t, bs) ==
    IF q = None THEN None
    ELSE [i \in 1..NAssign |->
             FillQueue(q[i], EmbeddingSlice(nz, t, crops_for_assign[i], bs), bs)]

\* one pass of the body of "for it, inputs in enumerate(train_loader)"
TrainIter(w) ==
    /\ pc[w] = "train"
    /\ \E nz \in BOOLEAN :
         queue' = [queue EXCEPT ![w] =
                      QueueAfter(queue[w], nz, clock[w] + 1, cfg.batch_size)]
    /\ clock' = [clock EXCEPT ![w] = @ + 1]
    /\ consec' = [consec EXCEPT ![w] = IF queue[w] = None THEN @ ELSE @ + 1]
    /\ pooled' = [pooled EXCEPT ![w] =
           [i \in 1..NAssign |-> Pools(use_the_queue[w], queue[w], i)]]
    /\ use_the_queue' = [use_the_queue EXCEPT ![w] =
           Pools(@, queue[w], NAssign) \/ (queue[w] = None /\ @)]
    /\ it' = [it EXCEPT ![w] = @ + 1]
    /\ pc' = [pc EXCEPT ![w] = IF it[w] + 1 = cfg.iters THEN "save" ELSE "train"]
    /\ UNCHANGED <<auxVars, cfg, rank, queue_length, epoch, ckpt, qfile, qepoch, snaps, writers,
                   start_epoch, restarts>>

\* ------------------------------------------------------------ persistence
CheckpointFile == <<"checkpoint.pth.tar">>
SnapshotFile(e) == <<"ckp-", e>>
QueueFile(r) == <<"queue", r>>

\* if args.rank == 0
IsCoordinator(w) == rank[w] = 0

\* a snapshot every checkpoint_freq epochs only
SnapshotDue_FreqOnly(e) == e % cfg.checkpoint_freq = 0

\* if epoch % args.checkpoint_freq == 0 or epoch == args.epochs - 1
SnapshotDue(e) == e % cfg.checkpoint_freq = 0 \/ e = cfg.epochs - 1

\* the epoch just finished stored instead of the next one
SaveDict_Same(e) == [epoch |-> e]

\* save_dict = {"epoch": epoch + 1, ...}
SaveDict(e) == [epoch |-> e + 1]

\* shutil.copyfile(checkpoint.pth.tar, ckp-<e>.pth): the file is created or
\* overwritten with the content c
CopyFile(files, e, c) == {f \in files : f[1] # e} \cup {<<e, c>>}

\* "save checkpoints": torch.save of {"epoch": epoch + 1, ...} and the copy
\* to ckp-<epoch>.pth, by the coordinating worker only
SaveCheckpoint(w) ==
    /\ pc[w] = "save"
    /\ IF IsCoordinator(w)
       THEN /\ ckpt' = SaveDict(epoch[w])
            /\ snaps' = IF SnapshotDue(epoch[w])
                        THEN CopyFile(snaps, epoch[w], ckpt') ELSE snaps
            /\ writers' = writers \cup {<<CheckpointFile, w>>}
                   \cup (IF SnapshotDue(epoch[w])
                         THEN {<<SnapshotFile(epoch[w]), w>>} ELSE {})
       ELSE UNCHANGED <<ckpt, snaps, writers>>
    /\ pc' = [pc EXCEPT ![w] = "savequeue"]
    /\ UNCHANGED <<auxVars, cfg, rank, queue_length, epoch, it, queue, use_the_queue,
                   qfile, qepoch, clock, consec, pooled, start_epoch, restarts>>

\* if queue is not None: torch.save({"queue": queue}, queue_path); then the
\* loop variable advances
SaveQueue(w) ==
    /\ pc[w] = "savequeue"
    /\ IF queue[w] # None
       THEN /\ qfile' = [qfile EXCEPT ![rank[w]] = queue[w]]
            /\ qepoch' = [qepoch EXCEPT ![rank[w]] = epoch[w]]
            /\ writers' = writers \cup {<<QueueFile(rank[w]), w>>}
       ELSE UNCHANGED <<qfile, qepoch, writers>>
    /\ epoch' = [epoch EXCEPT ![w] = @ + 1]
    /\ pc' = [pc EXCEPT ![w] = "loop"]
    /\ UNCHANGED <<auxVars, cfg, rank, queue_length, it, queue, use_the_queue, ckpt,
                   snaps, clock, consec, pooled, start_epoch, restarts>>

\* ---------------------------------------------------------- interruption
\* The process is terminated (at any point after its start) and the script is
\* launched again with the same command line: the files stay, the process
\* state is lost.
Restart(w) ==
    /\ pc[w] \notin {"off", "start"}
    /\ restarts < MaxRestarts
    /\ restarts' = restarts + 1
    /\ pc' = [pc EXCEPT ![w] = "start"]
    /\ rank' = [rank EXCEPT ![w] = w - 1]
    /\ queue_length' = [queue_length EXCEPT ![w] = cfg.queue_length]
    /\ epoch' = [epoch EXCEPT ![w] = 0]
    /\ it' = [it EXCEPT ![w] = 0]
    /\ queue' = [queue EXCEPT ![w] = None]
    /\ use_the_queue' = [use_the_queue EXCEPT ![w] = FALSE]
    /\ consec' = [consec EXCEPT ![w] = 0]
    /\ pooled' = [pooled EXCEPT ![w] = [i \in 1..NAssign |-> FALSE]]
    /\ start_epoch' = [start_epoch EXCEPT ![w] = 0]
    /\ UNCHANGED <<auxVars, cfg, ckpt, qfile, qepoch, snaps, writers, clock>>

Next ==
    \E w \in Workers :
        \/ Startup(w)
        \/ EpochBegin(w)
        \/ Finish(w)
        \/ TrainIter(w)
        \/ SaveCheckpoint(w)
        \/ SaveQueue(w)
        \/ Restart(w)

Spec == Init /\ [][Next]_vars

SpecWorkers == InitWorkers /\ [][Next]_vars

SpecSnapshots == InitSnapshots /\ [][Next]_vars

\* one process launched in a dump_path that holds no file of an earlier run
InitFresh ==
    \E c \in Configs : Launched({1}, c, None)

SpecFresh == InitFresh /\ [][Next]_vars

\* ------------------------------------------------------ exact arithmetic
\* Floating-point values are modelled by exact fractions <<n, d>>, d > 0, in
\* lowest terms.
Abs(x) == IF x < 0 THEN 0 - x ELSE x

RECURSIVE Gcd(_, _)
Gcd(a, b) == IF b = 0 THEN a ELSE Gcd(b, a % b)

Frac(n, d) ==
    LET s == IF d < 0 THEN 0 - 1 ELSE 1
        g == Gcd(Abs(n), Abs(d))
    IN  <<(s * n) \div g, (s * d) \div g>>

Whole(n) == <<n, 1>>
\* sums over the least common denominator and products cancelled crosswise,
\* so that no intermediate value is larger than the result needs
Add(x, y) ==
    LET g == Gcd(x[2], y[2])
    IN  Frac(x[1] * (y[2] \div g) + y[1] * (x[2] \div g), (x[2] \div g) * y[2])
Neg(x) == <<0 - x[1], x[2]>>
Sub(x, y) == Add(x, Neg(y))
Mul(x, y) ==
    LET g == Gcd(Abs(x[1]), y[2])
        h == Gcd(Abs(y[1]), x[2])
    IN  IF x[1] = 0 \/ y[1] = 0 THEN <<0, 1>>
        ELSE Frac((x[1] \div g) * (y[1] \div h), (x[2] \div h) * (y[2] \div g))
Div(x, y) == Mul(x, IF y[1] < 0 THEN <<0 - y[2], 0 - y[1]>> ELSE <<y[2], y[1]>>)
Leq(x, y) == x[1] * y[2] <= y[1] * x[2]
Less(x, y) == x[1] * y[2] < y[1] * x[2]

\* ------------------------------------------------- learning-rate schedule
\* math.cos(math.pi * t / T) for 0 <= t <= T, by Bhaskara's rational
\* approximation cos(x) ~ (pi^2 - 4 x^2) / (pi^2 + x^2) on [-pi/2, pi/2] and
\* cos(x) = -cos(pi - x) beyond: exact at 0, pi/3, pi/2, 2pi/3 and pi, within
\* 0.002 elsewhere, and strictly decreasing like the cosine.
CosPi(t, T) ==
    IF 2 * t <= T
    THEN Frac(T * T - 4 * t * t, T * T + t * t)
    ELSE Frac(4 * (T - t) * (T - t) - T * T, T * T + (T - t) * (T - t))

\* the end point left out (endpoint=False)
Linspace_NoEndpoint(start, stop, num) ==
    [i \in 1..num |-> Add(start, Mul(Frac(i - 1, num), Sub(stop, start)))]

\* np.linspace(start, stop, num): num evenly spaced values, the end included
Linspace(start, stop, num) ==
    [i \in 1..num |->
        IF num = 1 THEN start
        ELSE Add(start, Mul(Frac(i - 1, num - 1), Sub(stop, start)))]

\* np.linspace(args.start_warmup, args.base_lr, len(train_loader) * args.warmup_epochs)
WarmupLrSchedule(c) ==
    Linspace(Whole(c.start_warmup), Whole(c.base_lr), c.iters * c.warmup_epochs)

\* the cosine part one entry short
CosineIters_Short(c) == c.iters * (c.epochs - c.warmup_epochs) - 1

\* the number of cosine entries: len(np.arange(len(train_loader) * (epochs - warmup_epochs)))
CosineIters(c) ==
    IF c.epochs > c.warmup_epochs THEN c.iters * (c.epochs - c.warmup_epochs) ELSE 0

\* final_lr + 0.5 * (base_lr - final_lr) * (1 + cos(pi * t / (len * (epochs - warmup_epochs))))
CosineLrSchedule(c) ==
    [i \in 1..CosineIters(c) |->
        Add(Whole(c.final_lr),
            Mul(Frac(1, 2),
                Mul(Sub(Whole(c.base_lr), Whole(c.final_lr)),
                    Add(Whole(1), CosPi(i - 1, CosineIters(c))))))]

\* np.concatenate((warmup_lr_schedule, cosine_lr_schedule))
LrSchedule(c) == WarmupLrSchedule(c) \o CosineLrSchedule(c)

\* everything of main() and train() that a function-level specification
\* does not run
MainIdle ==
    /\ pc = [w \in Workers |-> "off"]
    /\ rank = [w \in Workers |-> w - 1]
    /\ queue_length = [w \in Workers |-> 0]
    /\ epoch = [w \in Workers |-> 0]
    /\ it = [w \in Workers |-> 0]
    /\ queue = NoneFor(Workers)
    /\ use_the_queue = [w \in Workers |-> FALSE]
    /\ ckpt = None
    /\ qfile = NoneFor(0..(NumWorkers - 1))
    /\ qepoch = [r \in 0..(NumWorkers - 1) |-> NotWritten]
    /\ snaps = {}
    /\ writers = {}
    /\ clock = [w \in Workers |-> 0]
    /\ consec = [w \in Workers |-> 0]
    /\ pooled = [w \in Workers |-> [i \in 1..NAssign |-> FALSE]]
    /\ start_epoch = [w \in Workers |-> 0]
    /\ restarts = 0

mainState == <<pc, rank, queue_length, epoch, it, queue, use_the_queue, ckpt,
               qfile, qepoch, snaps, writers, clock, consec, pooled, start_epoch, restarts>>

LrConfigs ==
    [epochs : 1..MaxEpochs,
     iters : 1..MaxIters,
     warmup_epochs : 0..MaxEpochs,
     start_warmup : 0..MaxLr,
     base_lr : 0..MaxLr,
     final_lr : 0..MaxLr]

InitLr ==
    /\ cfg \in {c \in LrConfigs : c.warmup_epochs <= c.epochs}
    /\ MainIdle
    /\ LrIdle
    /\ SinkhornIdle
    /\ StepIdle
    /\ CollIdle

\* main(): "lr_schedule = np.concatenate(...)"
BuildLrSchedule ==
    /\ lr_schedule = None
    /\ lr_schedule' = LrSchedule(cfg)
    /\ UNCHANGED <<cfg, mainState, assignments, stepVars, coll>>

NextLr == BuildLrSchedule

SpecLr == InitLr /\ [][NextLr]_vars

\* ---------------------------------------------------- distributed_sinkhorn
\* A matrix is a tuple of rows, each a tuple of fractions.  Every worker of
\* the process group holds its own Q, all of the same shape (prototypes x
\* samples); Qs is the tuple of the workers' matrices.
NRows(M) == Len(M)
NCols(M) == Len(M[1])

RECURSIVE SumTo(_, _)
SumTo(f, n) == IF n = 0 THEN Whole(0) ELSE Add(SumTo(f, n - 1), f[n])

\* torch.sum(Q)
SumAll(M) == SumTo([k \in 1..NRows(M) |-> SumTo(M[k], NCols(M))], NRows(M))

\* torch.sum(Q, dim=1): one sum per prototype
SumDim1(M) == [k \in 1..NRows(M) |-> SumTo(M[k], NCols(M))]

\* torch.sum(Q, dim=0): one sum per sample
SumDim0(M) == [b \in 1..NCols(M) |-> SumTo([k \in 1..NRows(M) |-> M[k][b]], NRows(M))]

\* dist.all_reduce(x) of a scalar: the sum over the workers of the group
AllReduceScalar(xs) == SumTo(xs, Len(xs))

\* dist.all_reduce(v) of a vector: the element-wise sum over the workers
AllReduceVector(vs) ==
    [k \in 1..Len(vs[1]) |-> SumTo([w \in 1..Len(vs) |-> vs[w][k]], Len(vs))]

\* the workers' matrices written out entry by entry (the same matrices: f @@ <<>>
\* is f)
Tabulated(Qs) ==
    [w \in 1..Len(Qs) |-> [k \in 1..Len(Qs[w]) |-> Qs[w][k] @@ <<>>] @@ <<>>] @@ <<>>

\* Q /= sum_Q, sum_Q reduced over the group
NormalizeTotal(Qs) ==
    LET sum_Q == AllReduceScalar([w \in 1..Len(Qs) |-> SumAll(Qs[w])])
    IN  Tabulated([w \in 1..Len(Qs) |->
            [k \in 1..NRows(Qs[w]) |->
                [b \in 1..NCols(Qs[w]) |-> Div(Qs[w][k][b], sum_Q)]]])

\* curr_sum = torch.sum(Q, dim=1); dist.all_reduce(curr_sum)
CurrSum(Qs) == AllReduceVector([w \in 1..Len(Qs) |-> SumDim1(Qs[w])])

\* Q *= (r / u).unsqueeze(1), with r = 1 / Q.shape[0] and u = curr_sum
ScaleRows(M, u) ==
    [k \in 1..NRows(M) |->
        [b \in 1..NCols(M) |-> Mul(M[k][b], Div(Frac(1, NRows(M)), u[k]))]]

\* Q *= (c / torch.sum(Q, dim=0)).unsqueeze(0), c = 1 / (world_size * Q.shape[1])
ScaleCols(M, ws) ==
    [k \in 1..NRows(M) |->
        [b \in 1..NCols(M) |->
            Mul(M[k][b], Div(Frac(1, ws * NCols(M)), SumDim0(M)[b]))]]

\* the body of "for it in range(nmb_iters)", nmb_iters times
RECURSIVE SinkhornIters(_, _, _)
SinkhornIters(Qs, ws, n) ==
    IF n = 0 THEN Qs
    ELSE LET P == SinkhornIters(Qs, ws, n - 1)
             u == CurrSum(P)
         IN  Tabulated([w \in 1..Len(P) |-> ScaleCols(ScaleRows(P[w], u), ws)])

\* the value returned without the division by the column sums
FinalNormalize_Skipped(M) ==
    [b \in 1..NCols(M) |-> [k \in 1..NRows(M) |-> M[k][b]]]

\* (Q / torch.sum(Q, dim=0, keepdim=True)).t(): one row per sample
FinalNormalize(M) ==
    [b \in 1..NCols(M) |-> [k \in 1..NRows(M) |-> Div(M[k][b], SumDim0(M)[b])]]

\* distributed_sinkhorn(Q, nmb_iters) as run by every worker of a group of
\* world_size workers: the tuple of the workers' results
DistributedSinkhorn(Qs, ws, nmb_iters) ==
    LET P == SinkhornIters(NormalizeTotal(Qs), ws, nmb_iters)
    IN  [w \in 1..Len(P) |-> FinalNormalize(P[w])]

\* Q = exp(out / epsilon).t() has strictly positive entries
Scores == {Whole(1), Whole(2)}
NumPrototypes == {2}
NumSamples == {2}
Matrices == UNION {[1..K -> [1..B -> Scores]] : K \in NumPrototypes, B \in NumSamples}

SinkhornConfigs ==
    UNION {[world_size : {ws}, nmb_iters : 0..MaxSinkhornIters, Q : [1..ws -> Matrices]]
           : ws \in 1..MaxWorld}

InitSinkhorn ==
    /\ cfg \in SinkhornConfigs
    /\ MainIdle
    /\ LrIdle
    /\ SinkhornIdle
    /\ StepIdle
    /\ CollIdle

\* q = distributed_sinkhorn(q, args.sinkhorn_iterations), on every worker
RunSinkhorn ==
    /\ assignments = None
    /\ assignments' = DistributedSinkhorn(cfg.Q, cfg.world_size, cfg.nmb_iters)
    /\ UNCHANGED <<cfg, mainState, lr_schedule, stepVars, coll>>

NextSinkhorn == RunSinkhorn

SpecSinkhorn == InitSinkhorn /\ [][NextSinkhorn]_vars

\* ------------------------------------------------------ train(), stepwise
\* One worker's train() calls for the epochs start..epochs-1, statement by
\* statement.  The model has two parameter tensors of one entry each: the
\* prototypes and "backbone", standing for every parameter whose name does not
\* contain "prototypes".

\* iteration = epoch * len(train_loader) + it
Iteration(f) == f.epoch * cfg.iters + f.it

\* for param_group in optimizer.param_groups: param_group["lr"] = lr_schedule[iteration]
StepSetLr ==
    /\ frame # None /\ frame.at = "lr"
    /\ lr' = lr_schedule[Iteration(frame) + 1]
    /\ frame' = [frame EXCEPT !.at = "normalize"]
    /\ UNCHANGED <<coll, cfg, mainState, lr_schedule, assignments, params, grads, before>>

\* nn.functional.normalize(w, dim=1, p=2) of a row with the single entry x:
\* x / max(|x|, eps)
NormalizeRow(x) ==
    IF x[1] > 0 THEN Whole(1) ELSE IF x[1] < 0 THEN Whole(0 - 1) ELSE Whole(0)

\* "normalize the prototypes": model.module.prototypes.weight.copy_(w)
StepNormalize ==
    /\ frame # None /\ frame.at = "normalize"
    /\ params' = [params EXCEPT !.prototypes = NormalizeRow(@)]
    /\ frame' = [frame EXCEPT !.at = "forward"]
    /\ UNCHANGED <<coll, cfg, mainState, lr_schedule, assignments, lr, grads, before>>

\* embedding, output = model(inputs)
StepForward ==
    /\ frame # None /\ frame.at = "forward"
    /\ frame' = [frame EXCEPT !.at = "loss"]
    /\ UNCHANGED <<coll, cfg, mainState, lr_schedule, assignments, lr, params, grads, before>>

\* "swav loss": the loop over crops_for_assign, up to loss /= len(crops_for_assign)
StepLoss ==
    /\ frame # None /\ frame.at = "loss"
    /\ frame' = [frame EXCEPT !.at = "zero_grad"]
    /\ UNCHANGED <<coll, cfg, mainState, lr_schedule, assignments, lr, params, grads, before>>

\* optimizer.zero_grad()
StepZeroGrad ==
    /\ frame # None /\ frame.at = "zero_grad"
    /\ grads' = [prototypes |-> Whole(0), backbone |-> Whole(0)]
    /\ frame' = [frame EXCEPT !.at = "backward"]
    /\ UNCHANGED <<coll, cfg, mainState, lr_schedule, assignments, lr, params, before>>

\* the gradients a backward pass can leave
GradValues == {Whole(0 - 1), Whole(0), Whole(1)}

\* loss.backward() (through apex.amp.scale_loss when use_fp16)
StepBackward ==
    /\ frame # None /\ frame.at = "backward"
    /\ \E gp \in GradValues : \E gb \in GradValues :
           grads' = [prototypes |-> Add(grads.prototypes, gp),
                     backbone |-> Add(grads.backbone, gb)]
    /\ frame' = [frame EXCEPT !.at = "cancel"]
    /\ UNCHANGED <<coll, cfg, mainState, lr_schedule, assignments, lr, params, before>>

\* the prototype gradients never cancelled
Frozen_Never(f) == FALSE

\* if iteration < args.freeze_prototypes_niters
Frozen(f) == Iteration(f) < cfg.freeze_prototypes_niters

\* "cancel some gradients": p.grad = None for the parameters named "prototypes"
StepCancel ==
    /\ frame # None /\ frame.at = "cancel"
    /\ grads' = IF Frozen(frame) THEN [grads EXCEPT !.prototypes = None] ELSE grads
    /\ frame' = [frame EXCEPT !.at = "step"]
    /\ UNCHANGED <<coll, cfg, mainState, lr_schedule, assignments, lr, params, before>>

\* the optimizer's update of one parameter: none without a gradient, else a
\* step of size lr against the gradient
Updated(p, g, rate) == IF g = None THEN p ELSE Sub(p, Mul(rate, g))

\* the next iteration entered behind its learning-rate update
Advance_SkipLr(f) ==
    IF f.it + 1 < cfg.iters THEN [f EXCEPT !.at = "normalize", !.it = @ + 1]
    ELSE IF f.epoch + 1 < cfg.epochs
         THEN [f EXCEPT !.at = "normalize", !.it = 0, !.epoch = @ + 1]
         ELSE [f EXCEPT !.at = "done"]

\* the for loop of train() advances, train() returns and main() calls it for
\* the next epoch
Advance(f) ==
    IF f.it + 1 < cfg.iters THEN [f EXCEPT !.at = "lr", !.it = @ + 1]
    ELSE IF f.epoch + 1 < cfg.epochs
         THEN [f EXCEPT !.at = "lr", !.it = 0, !.epoch = @ + 1]
         ELSE [f EXCEPT !.at = "done"]

\* optimizer.step()
StepOptimizer ==
    /\ frame # None /\ frame.at = "step"
    /\ before' = params
    /\ params' = [prototypes |-> Updated(params.prototypes, grads.prototypes, lr),
                  backbone |-> Updated(params.backbone, grads.backbone, lr)]
    /\ frame' = [frame EXCEPT !.at = "misc"]
    /\ UNCHANGED <<coll, cfg, mainState, lr_schedule, assignments, lr, grads>>

\* "misc": the meters and the log line; then the next iteration
StepMisc ==
    /\ frame # None /\ frame.at = "misc"
    /\ frame' = Advance(frame)
    /\ UNCHANGED <<coll, cfg, mainState, lr_schedule, assignments, lr, params, grads, before>>

StepConfigs ==
    [epochs : 1..MaxEpochs,
     iters : 1..MaxIters,
     warmup_epochs : 0..MaxEpochs,
     start_warmup : {0, 1},
     base_lr : {1},
     final_lr : {0},
     freeze_prototypes_niters : 0..MaxFreeze]

\* train() is entered for the epoch restored from the checkpoint (0 without
\* one), with the schedule main() has built and the optimizer's initial state
InitStep ==
    /\ cfg \in StepConfigs
    /\ MainIdle
    /\ lr_schedule = LrSchedule(cfg)
    /\ SinkhornIdle
    /\ \E e \in 0..(cfg.epochs - 1) : frame = [at |-> "lr", epoch |-> e, it |-> 0]
    /\ lr = Whole(cfg.base_lr)
    /\ params = [prototypes |-> Whole(1), backbone |-> Whole(1)]
    /\ grads = [prototypes |-> None, backbone |-> None]
    /\ before = None
    /\ CollIdle

NextStep ==
    \/ StepSetLr
    \/ StepNormalize
    \/ StepForward
    \/ StepLoss
    \/ StepZeroGrad
    \/ StepBackward
    \/ StepCancel
    \/ StepOptimizer
    \/ StepMisc

SpecStep == InitStep /\ [][NextStep]_vars

\* ------------------------------------- the loss loop in a process group
\* One training iteration of the workers of one process group, from "for i,
\* crop_id in enumerate(args.crops_for_assign)" to the end of that loop.
\* dist.all_reduce blocks its caller until every worker of the group has
\* called it with a tensor of the same shape.
collFrame == <<cfg, pc, rank, queue_length, epoch, it, ckpt, qfile, qepoch, snaps, writers,
               clock, consec, start_epoch, restarts, lr_schedule, assignments,
               stepVars>>

\* does assign-crop i pool the queue now
PoolsNow(w, i) ==
    queue[w] # None /\ (use_the_queue[w] \/ LastRowNonZero(queue[w][i]))

\* the shape of q = torch.exp(out / args.epsilon).t(): out has one column per
\* prototype and one row per sample, the pooled queue rows first
ShapeOfQ(w, i) ==
    <<cfg.nmb_prototypes,
      (IF PoolsNow(w, i) THEN Len(queue[w][i]) ELSE 0) + cfg.batch_size>>

\* lines "out = output[...]" to "q = torch.exp(out / args.epsilon).t()" for
\* the assign-crop the worker is at, or the end of the loop
CollCrop(w) ==
    /\ coll[w].at = "crop"
    /\ IF coll[w].i <= NAssign
       THEN /\ coll' = [coll EXCEPT ![w].at = "sinkhorn", ![w].n = 0,
                                     ![w].Q = ShapeOfQ(w, coll[w].i)]
            /\ pooled' = [pooled EXCEPT ![w][coll[w].i] = PoolsNow(w, coll[w].i)]
            /\ use_the_queue' = [use_the_queue EXCEPT ![w] = @ \/ PoolsNow(w, coll[w].i)]
            /\ queue' = [queue EXCEPT ![w] =
                   IF @ = None THEN None
                   ELSE [@ EXCEPT ![coll[w].i] =
                            FillQueue(@, EmbeddingSlice(TRUE, 1,
                                crops_for_assign[coll[w].i], cfg.batch_size),
                                cfg.batch_size)]]
       ELSE /\ coll' = [coll EXCEPT ![w].at = "done"]
            /\ UNCHANGED <<pooled, use_the_queue, queue>>
    /\ UNCHANGED collFrame

\* the n-th tensor distributed_sinkhorn reduces, with one entry per sample
ReducedShape_PerSample(n, Q) == IF n = 0 THEN <<>> ELSE <<Q[2]>>

\* the n-th tensor distributed_sinkhorn reduces: sum_Q = torch.sum(Q), a
\* scalar, then curr_sum = torch.sum(Q, dim=1), one entry per prototype
ReducedShape(n, Q) == IF n = 0 THEN <<>> ELSE <<Q[1]>>

\* the all_reduce calls of one distributed_sinkhorn call: sum_Q, curr_sum
\* before the loop, curr_sum once per pass of "for it in range(nmb_iters)"
ReductionsPerCall == 2 + cfg.sinkhorn_iterations

\* the worker calls dist.all_reduce and blocks
CollCall(w) ==
    /\ coll[w].at = "sinkhorn"
    /\ coll[w].n < ReductionsPerCall
    /\ coll' = [coll EXCEPT ![w].at = "blocked",
                            ![w].pending = ReducedShape(coll[w].n, coll[w].Q)]
    /\ UNCHANGED <<collFrame, pooled, use_the_queue, queue>>

\* every worker of the group is in the call, with tensors of one shape: the
\* reduction completes and every call returns
CollAllReduce ==
    /\ \A w \in Workers : coll[w].at = "blocked"
    /\ \A v \in Workers : \A w \in Workers : coll[v].pending = coll[w].pending
    /\ coll' = [w \in Workers |->
                   [coll[w] EXCEPT !.at = "sinkhorn",
                                   !.n = @ + 1,
                                   !.issued = Append(@, coll[w].pending)]]
    /\ UNCHANGED <<collFrame, pooled, use_the_queue, queue>>

\* distributed_sinkhorn returns; the sub-loss; the next assign-crop
CollReturn(w) ==
    /\ coll[w].at = "sinkhorn"
    /\ coll[w].n >= ReductionsPerCall
    /\ coll' = [coll EXCEPT ![w].at = "crop", ![w].i = @ + 1]
    /\ UNCHANGED <<collFrame, pooled, use_the_queue, queue>>

CollConfigs ==
    [batch_size : BatchSizes,
     nmb_prototypes : {3},
     sinkhorn_iterations : 0..MaxSinkhornIters]

\* the queue of a worker at the start of an iteration: absent, allocated and
\* never written, or filled by earlier iterations
QueueStates(c) ==
    {None,
     NewQueue(2 * c.batch_size, 1),
     [i \in 1..NAssign |-> [r \in 1..(2 * c.batch_size) |-> StaleRow]]}

InitColl ==
    /\ cfg \in CollConfigs
    /\ pc = [w \in Workers |-> "train"]
    /\ rank = [w \in Workers |-> w - 1]
    /\ queue_length = [w \in Workers |-> 2 * cfg.batch_size]
    /\ epoch = [w \in Workers |-> 0]
    /\ it = [w \in Workers |-> 0]
    /\ queue \in [Workers -> QueueStates(cfg)]
    /\ use_the_queue \in [Workers -> BOOLEAN]
    /\ \A w \in Workers : use_the_queue[w] => queue[w] # None
    /\ ckpt = None
    /\ qfile = NoneFor(0..(NumWorkers - 1))
    /\ qepoch = [r \in 0..(NumWorkers - 1) |-> NotWritten]
    /\ snaps = {}
    /\ writers = {}
    /\ clock = [w \in Workers |-> 0]
    /\ consec = [w \in Workers |-> 0]
    /\ pooled = [w \in Workers |-> [i \in 1..NAssign |-> FALSE]]
    /\ start_epoch = [w \in Workers |-> 0]
    /\ restarts = 0
    /\ LrIdle
    /\ SinkhornIdle
    /\ StepIdle
    /\ coll = [w \in Workers |->
                  [at |-> "crop", i |-> 1, n |-> 0, Q |-> <<>>,
                   pending |-> <<>>, issued |-> <<>>]]

NextColl ==
    \/ \E w \in Workers : CollCrop(w)
    \/ \E w \in Workers : CollCall(w)
    \/ \E w \in Workers : CollReturn(w)
    \/ CollAllReduce

\* every worker is a running process: it takes its next step, and a reduction
\* that every worker has joined completes
SpecColl == InitColl /\ [][NextColl]_vars /\ WF_vars(NextColl)

\* ---------------------------------------------- the assignment of a crop
\* The loss loop of one training iteration of one worker (world size 1), with
\* the values that flow through it.  A sample is a row of "out" together with
\* where it came from: src is the provenance of the row (a row of the current
\* batch or a row of the queue) and e its row of torch.exp(out / args.epsilon),
\* one strictly positive entry per prototype.
Sample(src, e) == [src |-> src, e |-> e]

\* the rows exp(out / epsilon) can have
ScoreRows == [1..2 -> Scores]

\* the row of the current batch's sample k of crop crop_id (the iteration is
\* stamped 1)
CurrentRow(crop_id, k) == Row(TRUE, 1, crop_id, k)

\* "embedding, output = model(inputs)": the samples of crop 0, then those of
\* crop 1, ..., bs of each, with the scores es
Output(es, bs) ==
    [p \in 1..Len(es) |-> Sample(CurrentRow((p - 1) \div bs, (p - 1) % bs), es[p])]

\* out = output[bs * crop_id: bs * (crop_id + 1)]
OutputSlice(output, crop_id, bs) == SubSeq(output, bs * crop_id + 1, bs * (crop_id + 1))

\* torch.mm(queue[i], model.module.prototypes.weight.t()), then exp(. / epsilon):
\* a never-written row scores 0 against every prototype and exp(0) = 1; a
\* written row has the scores qe
QueueScores(q, qe) ==
    [r \in 1..Len(q) |-> Sample(q[r], IF q[r].nz THEN qe ELSE [k \in 1..2 |-> Whole(1)])]

\* the queue rows placed behind the batch
PooledOut_QueueLast(qs, out) == out \o qs

\* out = torch.cat((torch.mm(queue[i], ...), out)): the queue rows first
PooledOut(qs, out) == qs \o out

\* q = torch.exp(out / args.epsilon).t(): prototypes x samples
QOf(out) == [k \in 1..2 |-> [b \in 1..Len(out) |-> out[b].e[k]]]

\* distributed_sinkhorn(q, n): row b of the result is the assignment of the
\* sample in column b of q
Solved(out, n) ==
    LET R == DistributedSinkhorn(<<QOf(out)>>, WORLD_SIZE, n)[1]
    IN  [b \in 1..Len(out) |-> [src |-> out[b].src, q |-> R[b]]]

\* x[-bs:]
LastRows(x, bs) == SubSeq(x, Len(x) - bs + 1, Len(x))

assignFrame == <<cfg, pc, rank, queue_length, epoch, it, ckpt, qfile, qepoch, snaps, writers,
                 clock, consec, start_epoch, restarts, lr_schedule, lr, params,
                 grads, before, coll>>

\* lines "out = output[...]" to "queue[i, :bs] = embedding[...]" for the
\* assign-crop the loop is at, or the end of the loop
AssignCrop ==
    /\ frame # None /\ frame.at = "crop"
    /\ IF frame.i <= NAssign
       THEN LET i == frame.i
                crop_id == crops_for_assign[i]
                bs == cfg.batch_size
                out == OutputSlice(frame.output, crop_id, bs)
            IN  /\ frame' = [frame EXCEPT !.at = "solve",
                                !.out = IF PoolsNow(1, i)
                                        THEN PooledOut(QueueScores(queue[1][i], frame.qe), out)
                                        ELSE out]
                /\ pooled' = [pooled EXCEPT ![1][i] = PoolsNow(1, i)]
                /\ use_the_queue' = [use_the_queue EXCEPT ![1] = @ \/ PoolsNow(1, i)]
                /\ queue' = [queue EXCEPT ![1] =
                       IF @ = None THEN None
                       ELSE [@ EXCEPT ![i] =
                                FillQueue(@, EmbeddingSlice(TRUE, 1, crop_id, bs), bs)]]
       ELSE /\ frame' = [frame EXCEPT !.at = "done"]
            /\ UNCHANGED <<pooled, use_the_queue, queue>>
    /\ UNCHANGED <<assignFrame, assignments>>

\* q = distributed_sinkhorn(q, args.sinkhorn_iterations)[-bs:], the sub-loss
\* computed with it, and the next assign-crop
AssignSolve ==
    /\ frame # None /\ frame.at = "solve"
    /\ assignments' = [assignments EXCEPT ![frame.i] =
           LastRows(Solved(frame.out, cfg.sinkhorn_iterations), cfg.batch_size)]
    /\ frame' = [frame EXCEPT !.at = "crop", !.i = @ + 1]
    /\ UNCHANGED <<assignFrame, pooled, use_the_queue, queue>>

AssignConfigs ==
    [batch_size : BatchSizes,
     sinkhorn_iterations : 0..MaxSinkhornIters]

\* the worker's queue and flag at the start of an iteration: no queue, a queue
\* allocated and not yet filled, or a filled queue (one batch of rows) that
\* an earlier iteration of the epoch may have pooled already
AssignQueueStates(c) ==
    {<<None, FALSE>>,
     <<NewQueue(c.batch_size, WORLD_SIZE), FALSE>>,
     <<StaleQueue(c), FALSE>>,
     <<StaleQueue(c), TRUE>>}

InitAssign ==
    /\ cfg \in AssignConfigs
    /\ pc = [w \in Workers |-> IF w = 1 THEN "train" ELSE "off"]
    /\ rank = [w \in Workers |-> IF w = 1 THEN RANK ELSE w - 1]
    /\ queue_length = [w \in Workers |-> IF w = 1 THEN cfg.batch_size ELSE 0]
    /\ epoch = [w \in Workers |-> 0]
    /\ it = [w \in Workers |-> 0]
    /\ \E s \in AssignQueueStates(cfg) :
           /\ queue = [w \in Workers |-> IF w = 1 THEN s[1] ELSE None]
           /\ use_the_queue = [w \in Workers |-> w = 1 /\ s[2]]
           /\ \E es \in [1..(NAssign * cfg.batch_size) -> ScoreRows] :
              \E qe \in (IF s[1] = StaleQueue(cfg) THEN ScoreRows
                         ELSE {[k \in 1..2 |-> Whole(1)]}) :
                  frame = [at |-> "crop", i |-> 1,
                           output |-> Output(es, cfg.batch_size),
                           qe |-> qe, out |-> <<>>]
    /\ ckpt = None
    /\ qfile = NoneFor(0..(NumWorkers - 1))
    /\ qepoch = [r \in 0..(NumWorkers - 1) |-> NotWritten]
    /\ snaps = {}
    /\ writers = {}
    /\ clock = [w \in Workers |-> 0]
    /\ consec = [w \in Workers |-> 0]
    /\ pooled = [w \in Workers |-> [i \in 1..NAssign |-> FALSE]]
    /\ start_epoch = [w \in Workers |-> 0]
    /\ restarts = 0
    /\ LrIdle
    /\ assignments = [i \in 1..NAssign |-> None]
    /\ lr = None
    /\ params = None
    /\ grads = None
    /\ before = None
    /\ CollIdle

NextAssign ==
    \/ AssignCrop
    \/ AssignSolve

SpecAssign == InitAssign /\ [][NextAssign]_vars

\* ================================================================== claims
Running(w) == pc[w] \in {"loop", "train", "save", "savequeue", "done"}
InEpoch(w) == pc[w] \in {"train", "save", "savequeue"}
Batches(q) == Len(q) \div cfg.batch_size
Filled(w, i) == queue[w] # None /\ consec[w] >= Batches(queue[w][i])

\* C1 (as stated): after capacity/batch_size consecutive queue writes the queue
\* of every assign-crop holds the last capacity embeddings of that crop, the
\* oldest batch at index 0 and the newest batch in the last batch_size slots.
C1_OldestFirst ==
    \A w \in Workers : \A i \in 1..NAssign :
        Filled(w, i) =>
            \A r \in 1..Len(queue[w][i]) :
                /\ queue[w][i][r].stamp =
                       clock[w] - (Batches(queue[w][i]) - 1 - ((r - 1) \div cfg.batch_size))
                /\ queue[w][i][r].crop = crops_for_assign[i]
                /\ queue[w][i][r].row = (r - 1) % cfg.batch_size

\* C1 (amended): after capacity/batch_size consecutive queue writes the queue
\* of every assign-crop holds exactly the last capacity embeddings of that
\* crop, the newest batch in slots 0..batch_size-1 and the oldest batch in the
\* last batch_size slots, each batch in its own row order.
C1_NewestFirst ==
    \A w \in Workers : \A i \in 1..NAssign :
        Filled(w, i) =>
            \A r \in 1..Len(queue[w][i]) :
                /\ queue[w][i][r].stamp = clock[w] - ((r - 1) \div cfg.batch_size)
                /\ queue[w][i][r].crop = crops_for_assign[i]
                /\ queue[w][i][r].row = (r - 1) % cfg.batch_size

C1_Witness ==
    \E w \in Workers : \E i \in 1..NAssign :
        /\ Filled(w, i)
        /\ Batches(queue[w][i]) >= 2
        /\ cfg.batch_size >= 2

\* C2 (as stated): when queue_length is not divisible by batch_size x
\* world_size the startup fails before any training iteration, and the queue
\* length is never truncated.
C2_StartupFails ==
    \A w \in Workers :
        cfg.queue_length % (cfg.batch_size * WORLD_SIZE) # 0 =>
            /\ ~Running(w)
            /\ queue_length[w] = cfg.queue_length

\* C2 (amended): the startup never fails on the queue length; from the end of
\* the startup on, args.queue_length is the largest multiple of batch_size x
\* world_size that is not above the configured value (0, the disabled queue,
\* when the configured value is below batch_size x world_size), and a queue
\* allocated by the loop has that many rows per world_size.
C2_RoundedDown ==
    \A w \in Workers :
        Running(w) =>
            /\ queue_length[w] % (cfg.batch_size * WORLD_SIZE) = 0
            /\ queue_length[w] <= cfg.queue_length
            /\ cfg.queue_length - queue_length[w] < cfg.batch_size * WORLD_SIZE
            /\ (queue[w] # None /\ qfile[RANK] = None =>
                    \A i \in 1..NAssign :
                        Len(queue[w][i]) * WORLD_SIZE = queue_length[w])

C2_Witness ==
    \E w \in Workers :
        /\ cfg.queue_length % (cfg.batch_size * WORLD_SIZE) # 0
        /\ pc[w] = "train"
        /\ it[w] > 0
        /\ queue[w] # None
        /\ queue_length[w] < cfg.queue_length

\* C6: when the coordinating worker has finished epoch e the checkpoint holds
\* e + 1; a (re)start begins the loop at the stored counter, 0 without a
\* checkpoint; when the loop has completed the checkpoint holds the configured
\* number of epochs; the restored epoch is between 0 and that number.
C6_EpochCounter ==
    \A w \in Workers :
        /\ (pc[w] = "savequeue" /\ IsCoordinator(w) =>
                ckpt # None /\ ckpt.epoch = epoch[w] + 1)
        /\ (pc[w] = "loop" =>
                epoch[w] = IF ckpt = None THEN 0 ELSE ckpt.epoch)
        /\ (pc[w] = "done" => ckpt # None /\ ckpt.epoch = cfg.epochs)
        /\ (Running(w) \/ InEpoch(w) =>
                /\ start_epoch[w] \in 0..cfg.epochs
                /\ start_epoch[w] <= epoch[w])

C6_Witness ==
    \E w \in Workers :
        /\ pc[w] = "done"
        /\ restarts > 0
        /\ start_epoch[w] > 0
        /\ start_epoch[w] < cfg.epochs

C9_QueueAbsent ==
    \A w \in Workers :
        InEpoch(w) /\ (queue_length[w] = 0 \/ epoch[w] < cfg.epoch_queue_starts) =>
            /\ queue[w] = None
            /\ \A i \in 1..NAssign : ~pooled[w][i]

\* C10: once the queue exists, every training iteration updates the queue of
\* every assign-crop exactly once (the rows move batch_size slots down and the
\* current batch of that crop is written to the first batch_size slots),
\* whether or not the iteration pooled the queue, and the queue's shape never
\* changes.
C10_UpdateEveryIteration ==
    [][\A w \in Workers :
         /\ (clock'[w] = clock[w] + 1 /\ queue[w] # None =>
                /\ queue'[w] # None
                /\ \A i \in 1..NAssign : \A r \in 1..Len(queue[w][i]) :
                       IF r <= cfg.batch_size
                       THEN /\ queue'[w][i][r].stamp = clock'[w]
                            /\ queue'[w][i][r].crop = crops_for_assign[i]
                            /\ queue'[w][i][r].row = r - 1
                       ELSE queue'[w][i][r] = queue[w][i][r - cfg.batch_size])
         /\ (queue[w] # None /\ queue'[w] # None =>
                /\ Len(queue'[w]) = Len(queue[w])
                /\ \A i \in 1..NAssign : Len(queue'[w][i]) = Len(queue[w][i]))]_vars

C10_Witness ==
    \E w \in Workers : \E i \in 1..NAssign :
        /\ pc[w] = "train"
        /\ it[w] > 0
        /\ queue[w] # None
        /\ ~pooled[w][i]
        /\ queue[w][i][1].stamp = clock[w]
        /\ Batches(queue[w][i]) >= 2

\* the schedule is built; w is the number of warmup entries
LrBuilt == lr_schedule # None
WarmupIters == cfg.iters * cfg.warmup_epochs
NonDecreasing(sq, a, b) == \A i \in a..(b - 1) : Leq(sq[i], sq[i + 1])
NonIncreasing(sq, a, b) == \A i \in a..(b - 1) : Leq(sq[i + 1], sq[i])

\* C5 (as stated): for every configuration, warmup_epochs = 0 and warmup_epochs
\* = epochs included, the schedule starts at start_warmup, has base_lr at index
\* warmup_epochs x iterations_per_epoch, ends at final_lr, is non-decreasing
\* over the warmup indices and non-increasing over the cosine indices.
C5_EndpointsAsStated ==
    LrBuilt =>
        /\ Len(lr_schedule) >= 1
        /\ lr_schedule[1] = Whole(cfg.start_warmup)
        /\ WarmupIters + 1 <= Len(lr_schedule)
        /\ lr_schedule[WarmupIters + 1] = Whole(cfg.base_lr)
        /\ lr_schedule[Len(lr_schedule)] = Whole(cfg.final_lr)
        /\ NonDecreasing(lr_schedule, 1, WarmupIters)
        /\ NonIncreasing(lr_schedule, WarmupIters + 1, Len(lr_schedule))

\* C5 (amended): for every configuration with 1 <= warmup_epochs < epochs the
\* schedule starts at start_warmup and has base_lr at index warmup_epochs x
\* iterations_per_epoch; it is non-decreasing over the warmup indices when
\* start_warmup <= base_lr and non-increasing over the cosine indices when
\* final_lr <= base_lr; its final value is not final_lr but lies between
\* final_lr and base_lr, above final_lr whenever base_lr differs from
\* final_lr.  With warmup_epochs = 0 the first value is base_lr; with
\* warmup_epochs = epochs the schedule is the warmup alone: it has no index
\* warmup_epochs x iterations_per_epoch and ends at base_lr (at start_warmup
\* when it has one entry).
C5_Endpoints ==
    LrBuilt =>
        LET n == Len(lr_schedule)
            w == WarmupIters
        IN  /\ n >= 1
            /\ (1 <= cfg.warmup_epochs /\ cfg.warmup_epochs < cfg.epochs =>
                   /\ lr_schedule[1] = Whole(cfg.start_warmup)
                   /\ w + 1 <= n
                   /\ lr_schedule[w + 1] = Whole(cfg.base_lr))
            /\ (cfg.start_warmup <= cfg.base_lr => NonDecreasing(lr_schedule, 1, w))
            /\ (cfg.final_lr <= cfg.base_lr => NonIncreasing(lr_schedule, w + 1, n))
            /\ (cfg.warmup_epochs < cfg.epochs /\ cfg.final_lr <= cfg.base_lr =>
                   /\ Leq(Whole(cfg.final_lr), lr_schedule[n])
                   /\ Leq(lr_schedule[n], Whole(cfg.base_lr)))
            /\ (cfg.warmup_epochs < cfg.epochs /\ cfg.final_lr # cfg.base_lr =>
                   lr_schedule[n] # Whole(cfg.final_lr))
            /\ (cfg.warmup_epochs = 0 => lr_schedule[1] = Whole(cfg.base_lr))
            /\ (cfg.warmup_epochs = cfg.epochs =>
                   /\ n = w
                   /\ lr_schedule[n] = IF n = 1 THEN Whole(cfg.start_warmup)
                                       ELSE Whole(cfg.base_lr))

C5_Witness ==
    /\ LrBuilt
    /\ cfg.warmup_epochs >= 1
    /\ cfg.warmup_epochs < cfg.epochs
    /\ cfg.start_warmup < cfg.base_lr
    /\ cfg.final_lr < cfg.base_lr
    /\ WarmupIters >= 2
    /\ Len(lr_schedule) - WarmupIters >= 2
    /\ Less(lr_schedule[WarmupIters + 2], lr_schedule[WarmupIters + 1])

\* C3: for a strictly positive Q, any iteration count and any world size, the
\* matrix distributed_sinkhorn returns has one row per sample and one entry
\* per prototype, and the entries of every sample sum to 1.
C3_SampleSumsToOne ==
    assignments # None =>
        \A w \in 1..cfg.world_size :
            /\ Len(assignments[w]) = NCols(cfg.Q[w])
            /\ \A b \in 1..Len(assignments[w]) :
                   /\ Len(assignments[w][b]) = NRows(cfg.Q[w])
                   /\ SumTo(assignments[w][b], Len(assignments[w][b])) = Whole(1)

C3_Witness ==
    /\ assignments # None
    /\ cfg.world_size >= 2
    /\ cfg.nmb_iters >= 1
    /\ \E w \in 1..cfg.world_size : \E b \in 1..Len(assignments[w]) : assignments[w][b][1] # assignments[w][b][2]
    /\ \E w \in 1..cfg.world_size : cfg.Q[w] # cfg.Q[1]

\* optimizer.step() has just run
AfterStep == frame # None /\ frame.at = "misc"

\* C4 (as stated): below freeze_prototypes_niters the optimizer step leaves the
\* prototypes as they were while the other parameters are updated; at or above
\* it the prototypes change whenever their gradient is non-zero.
C4_FreezeAsStated ==
    AfterStep =>
        /\ (Iteration(frame) < cfg.freeze_prototypes_niters =>
               /\ params.prototypes = before.prototypes
               /\ params.backbone = Sub(before.backbone, Mul(lr, grads.backbone)))
        /\ (Iteration(frame) >= cfg.freeze_prototypes_niters
                /\ grads.prototypes # Whole(0) =>
               params.prototypes # before.prototypes)

\* C4 (amended): below freeze_prototypes_niters the optimizer step leaves the
\* prototypes as they were while the other parameters are updated; at or above
\* it the prototype gradient reaches the optimizer unchanged and the
\* prototypes change whenever their gradient and the scheduled learning rate
\* are both non-zero (the rate is 0 at the first iteration when start_warmup
\* is 0, and then no parameter changes).
C4_Freeze ==
    AfterStep =>
        /\ (Iteration(frame) < cfg.freeze_prototypes_niters =>
               /\ params.prototypes = before.prototypes
               /\ grads.prototypes = None
               /\ params.backbone = Sub(before.backbone, Mul(lr, grads.backbone)))
        /\ (Iteration(frame) >= cfg.freeze_prototypes_niters =>
               /\ grads.prototypes # None
               /\ (grads.prototypes # Whole(0) /\ lr # Whole(0) =>
                      params.prototypes # before.prototypes)
               /\ (lr = Whole(0) => params = before))

C4_Witness ==
    /\ AfterStep
    /\ frame.epoch > 0
    /\ cfg.freeze_prototypes_niters > 0
    /\ Iteration(frame) >= cfg.freeze_prototypes_niters
    /\ params.prototypes # before.prototypes
    /\ params.backbone # before.backbone

\* the sum-reductions of one iteration: per assign-crop a scalar, then 1 +
\* sinkhorn_iterations vectors with one entry per prototype
ExpectedReductions ==
    [j \in 1..(NAssign * (2 + cfg.sinkhorn_iterations)) |->
        IF (j - 1) % (2 + cfg.sinkhorn_iterations) = 0
        THEN <<>> ELSE <<cfg.nmb_prototypes>>]

IsPrefix(a, b) == Len(a) <= Len(b) /\ \A j \in 1..Len(a) : a[j] = b[j]

CollDone == \A w \in Workers : coll[w].at = "done"

C8_Lockstep ==
    /\ \A w \in Workers :
           /\ IsPrefix(coll[w].issued, ExpectedReductions)
           /\ (coll[w].at = "done" => coll[w].issued = ExpectedReductions)
           /\ (coll[w].at = "blocked" =>
                   coll[w].pending = ExpectedReductions[Len(coll[w].issued) + 1])
    /\ \A v \in Workers : \A w \in Workers :
           coll[v].at = "blocked" /\ coll[w].at = "blocked" =>
               /\ Len(coll[v].issued) = Len(coll[w].issued)
               /\ coll[v].pending = coll[w].pending

\* C8: in a training iteration every worker issues the same sequence of
\* blocking sum-reductions, len(crops_for_assign) x (2 + sinkhorn_iterations)
\* of them, in the same order and with the same shapes, whatever its rank and
\* whether its queue is absent, allocated and unused, or active; no worker
\* waits forever at a reduction: every worker finishes the loop.
C8_SameReductions == []C8_Lockstep /\ <>CollDone

C8_Witness ==
    /\ CollDone
    /\ cfg.sinkhorn_iterations >= 1
    /\ \E u \in Workers : \E v \in Workers :
           /\ queue[u] = None
           /\ queue[v] # None
           /\ \A i \in 1..NAssign : pooled[v][i]

\* the loss loop has used the assignment of assign-crop i
Assigned(i) == frame # None /\ (frame.i > i) /\ assignments[i] # None

\* C11: for every assign-crop, pooled or not, the assignment used in the loss
\* has exactly batch_size rows; row k is the solver's result for sample k of
\* the current batch of that crop, in the batch's order, and no row comes from
\* a queue sample.
C11_CurrentBatchOnly ==
    \A i \in 1..NAssign :
        Assigned(i) =>
            /\ Len(assignments[i]) = cfg.batch_size
            /\ \A k \in 1..cfg.batch_size :
                   /\ assignments[i][k].src = CurrentRow(crops_for_assign[i], k - 1)
                   /\ SumTo(assignments[i][k].q, 2) = Whole(1)
            /\ (frame.i = i + 1 /\ frame.at # "solve" =>
                   LET S == Tabulated(<<Solved(frame.out, cfg.sinkhorn_iterations)>>)[1]
                   IN  \A k \in 1..cfg.batch_size :
                           \E b \in 1..Len(frame.out) :
                               /\ frame.out[b].src = CurrentRow(crops_for_assign[i], k - 1)
                               /\ assignments[i][k] = S[b])

C11_Witness ==
    /\ Assigned(2)
    /\ pooled[1][1]
    /\ pooled[1][2]
    /\ cfg.batch_size >= 2
    /\ cfg.sinkhorn_iterations >= 1
    /\ assignments[2][1].q # assignments[2][2].q

\* train() is inside the body of its for loop
InIteration == frame # None /\ frame.at \in {"lr", "normalize", "forward", "loss",
                                             "zero_grad", "backward", "cancel",
                                             "step", "misc"}

Max(a, b) == IF a >= b THEN a ELSE b

\* C12 (as stated): the schedule has exactly iterations_per_epoch x epochs
\* entries, and the global iteration index of every iteration the loop runs
\* is a valid index into it.
C12_ExactLength ==
    InIteration =>
        /\ Len(lr_schedule) = cfg.iters * cfg.epochs
        /\ Iteration(frame) \in 0..(Len(lr_schedule) - 1)

\* C12 (amended): the schedule has iterations_per_epoch x max(epochs,
\* warmup_epochs) entries, which is iterations_per_epoch x epochs exactly when
\* warmup_epochs <= epochs; for every iteration the loop runs (any start
\* epoch, any batch index) the global iteration index is below
\* iterations_per_epoch x epochs and so a valid index, and the rate written
\* into the optimizer is the schedule's entry at that index.
C12_ValidIndex ==
    InIteration =>
        /\ Len(lr_schedule) = cfg.iters * Max(cfg.epochs, cfg.warmup_epochs)
        /\ (cfg.warmup_epochs <= cfg.epochs => Len(lr_schedule) = cfg.iters * cfg.epochs)
        /\ Iteration(frame) \in 0..(cfg.iters * cfg.epochs - 1)
        /\ Iteration(frame) \in 0..(Len(lr_schedule) - 1)
        /\ (frame.at # "lr" => lr = lr_schedule[Iteration(frame) + 1])

C12_Witness ==
    /\ InIteration
    /\ frame.at = "normalize"
    /\ cfg.epochs >= 2
    /\ cfg.iters >= 2
    /\ cfg.warmup_epochs = 1
    /\ Iteration(frame) = Len(lr_schedule) - 1

\* the names of the snapshot files
SnapshotEpochs == {f[1] : f \in snaps}

\* worker w takes the "save checkpoints" step
SavesCheckpoint(w) == pc[w] = "save" /\ pc'[w] = "savequeue"

\* C13: at the end of epoch e the coordinating worker writes the snapshot
\* ckp-<e>.pth exactly when e is a multiple of checkpoint_freq or e is the last
\* epoch; the snapshot holds the checkpoint just written for that epoch (the
\* counter e + 1); no other step touches a snapshot, and a start takes its
\* epoch from the live checkpoint alone, whatever snapshots exist.
C13_Snapshots ==
    /\ [][\A w \in Workers :
            /\ (SavesCheckpoint(w) /\ IsCoordinator(w) =>
                   /\ ckpt' = [epoch |-> epoch[w] + 1]
                   /\ IF epoch[w] % cfg.checkpoint_freq = 0 \/ epoch[w] = cfg.epochs - 1
                      THEN /\ <<epoch[w], ckpt'>> \in snaps'
                           /\ \A f \in snaps' : f[1] = epoch[w] => f[2] = ckpt'
                           /\ \A f \in snaps' : f[1] # epoch[w] => f \in snaps
                      ELSE snaps' = snaps)
            /\ (pc[w] = "start" /\ pc'[w] = "loop" =>
                   epoch'[w] = IF ckpt = None THEN 0 ELSE ckpt.epoch)
            /\ ((\A v \in Workers : ~SavesCheckpoint(v)) => snaps' = snaps)]_vars
    /\ [](\A f \in snaps :
              /\ f[2] = [epoch |-> f[1] + 1]
              /\ (f[1] % cfg.checkpoint_freq = 0 \/ f[1] = cfg.epochs - 1))

C13_Witness ==
    /\ pc[1] = "done"
    /\ cfg.epochs = 3
    /\ cfg.checkpoint_freq = 2
    /\ SnapshotEpochs = {0, 2}
    /\ restarts > 0

\* the step keeps the iteration it belongs to
SameIteration == frame'.epoch = frame.epoch /\ frame'.it = frame.it

\* C14: within every training iteration the steps run in this order, each
\* once: the schedule's rate for the global iteration is written into the
\* optimizer, the prototypes are overwritten by their row-normalized version,
\* the forward pass, the loss, the gradients zeroed, the backward pass, the
\* prototype gradients cancelled if frozen, the optimizer step; only then does
\* the loop move to the next iteration, whose index is one higher.
C14_StepOrder ==
    [][frame # None =>
         CASE frame.at = "lr" ->
                  /\ frame'.at = "normalize" /\ SameIteration
                  /\ lr' = lr_schedule[Iteration(frame) + 1]
                  /\ UNCHANGED <<params, grads>>
           [] frame.at = "normalize" ->
                  /\ frame'.at = "forward" /\ SameIteration
                  /\ params' = [params EXCEPT !.prototypes = NormalizeRow(@)]
                  /\ UNCHANGED <<lr, grads>>
           [] frame.at = "forward" ->
                  /\ frame'.at = "loss" /\ SameIteration
                  /\ UNCHANGED <<lr, params, grads>>
           [] frame.at = "loss" ->
                  /\ frame'.at = "zero_grad" /\ SameIteration
                  /\ UNCHANGED <<lr, params, grads>>
           [] frame.at = "zero_grad" ->
                  /\ frame'.at = "backward" /\ SameIteration
                  /\ grads' = [prototypes |-> Whole(0), backbone |-> Whole(0)]
                  /\ UNCHANGED <<lr, params>>
           [] frame.at = "backward" ->
                  /\ frame'.at = "cancel" /\ SameIteration
                  /\ grads'.prototypes # None /\ grads'.backbone # None
                  /\ UNCHANGED <<lr, params>>
           [] frame.at = "cancel" ->
                  /\ frame'.at = "step" /\ SameIteration
                  /\ grads' = IF Iteration(frame) < cfg.freeze_prototypes_niters
                              THEN [grads EXCEPT !.prototypes = None] ELSE grads
                  /\ UNCHANGED <<lr, params>>
           [] frame.at = "step" ->
                  /\ frame'.at = "misc" /\ SameIteration
                  /\ params'.backbone = Sub(params.backbone, Mul(lr, grads.backbone))
                  /\ UNCHANGED <<lr, grads>>
           [] frame.at = "misc" ->
                  /\ \/ frame'.at = "lr" /\ Iteration(frame') = Iteration(frame) + 1
                     \/ frame'.at = "done"
                           /\ Iteration(frame) = cfg.iters * cfg.epochs - 1
                  /\ UNCHANGED <<lr, params, grads>>
           [] OTHER -> FALSE]_vars

C14_Witness ==
    /\ frame # None
    /\ frame.at = "done"
    /\ cfg.iters >= 2
    /\ cfg.epochs >= 2
    /\ cfg.freeze_prototypes_niters = 1
    /\ params.prototypes # Whole(1)

\* the last iteration of worker w pooled the queue for some / every assign-crop
SomePooled(w) == \E i \in 1..NAssign : pooled[w][i]
AllPooled(w) == \A i \in 1..NAssign : pooled[w][i]

\* no all-zero embedding is among the rows this run wrote to the queue
WrittenRowsNonZero(w) ==
    queue[w] # None =>
        \A i \in 1..NAssign : \A r \in 1..Len(queue[w][i]) :
            queue[w][i][r].stamp > 0 => queue[w][i][r].nz

\* worker w runs one training iteration
TrainStep(w) == clock'[w] = clock[w] + 1

NoInterruption == restarts = 0

\* C15 (as stated): once a worker has pooled queue contents in an iteration it
\* pools them for every assign-crop in every later iteration of the run, the
\* first iteration of later epochs included, for any embedding values.
C15_MonotoneAsStated ==
    [][\A w \in Workers :
         TrainStep(w) /\ SomePooled(w) => AllPooled(w)']_vars

\* C15 (amended): once a worker has pooled queue contents in an iteration it
\* pools them for every assign-crop in every later iteration of the same
\* epoch, for any embedding values; in the first iteration of an epoch
\* assign-crop i is pooled exactly when the last slot of its queue or of an
\* earlier assign-crop's queue is non-zero; so pooling continues over all later
\* epochs of the process as long as no all-zero embedding was written to the
\* queue.
C15_Monotone ==
    /\ ([](NoInterruption /\ \A w \in Workers : WrittenRowsNonZero(w)) =>
           \A w \in Workers : [](SomePooled(w) => []AllPooled(w)))
    /\ [][\A w \in Workers :
            TrainStep(w) =>
                /\ (it[w] > 0 /\ SomePooled(w) => AllPooled(w)')
                /\ (it[w] = 0 =>
                       \A i \in 1..NAssign :
                           pooled'[w][i] <=>
                               /\ queue[w] # None
                               /\ \E j \in 1..i : LastRowNonZero(queue[w][j]))]_vars

C15_Witness ==
    \E w \in Workers :
        /\ AllPooled(w)
        /\ restarts = 0
        /\ epoch[w] >= 1
        /\ pc[w] = "train"
        /\ it[w] = 1
        /\ qfile[RANK] # None
        /\ qfile[RANK][1][1].stamp > 0
        /\ \A i \in 1..NAssign : \A r \in 1..Len(queue[w][i]) :
               queue[w][i][r].stamp > 0 /\ queue[w][i][r].nz

\* every row of the worker's queue is a never-written row of torch.zeros or a
\* non-zero embedding written by an iteration
ZerosAndEmbeddings(q) ==
    \A i \in 1..NAssign : \A r \in 1..Len(q[i]) :
        q[i][r] = ZeroRow \/ (q[i][r].nz /\ q[i][r].stamp > 0)

\* the start finds no queue file
NoQueueFile == \A r \in DOMAIN qfile : qfile[r] = None

\* C16: for a queue allocated with zeros and embeddings that are never
\* all-zero, an iteration that pools the queue finds every row of every
\* assign-crop's queue written by an earlier iteration, no never-written row;
\* and, in a process that allocated its queue, an iteration pools exactly when
\* at least capacity/batch_size iterations have written to the queue since its
\* allocation, so the first pooling comes exactly capacity/batch_size
\* iterations after the allocation.
C16_FilledWhenPooled ==
    /\ [][\A w \in Workers :
            TrainStep(w) /\ queue[w] # None /\ ZerosAndEmbeddings(queue[w])
                /\ SomePooled(w)' =>
                    \A i \in 1..NAssign : \A r \in 1..Len(queue[w][i]) :
                        /\ queue[w][i][r] # ZeroRow
                        /\ queue[w][i][r].stamp \in 1..clock[w]]_vars
    /\ (NoQueueFile /\ [](NoInterruption /\ \A w \in Workers : WrittenRowsNonZero(w)) =>
           [](\A w \in Workers : \A i \in 1..NAssign :
                  queue[w] # None =>
                      (pooled[w][i] <=> consec[w] >= Batches(queue[w][i]) + 1)))

C16_Witness ==
    \E w \in Workers :
        /\ restarts = 0
        /\ queue[w] # None
        /\ ZerosAndEmbeddings(queue[w])
        /\ AllPooled(w)
        /\ Batches(queue[w][1]) >= 2
        /\ consec[w] = Batches(queue[w][1]) + 1

\* worker w has just come out of the startup of main()
JustStarted(w) == pc[w] = "loop" /\ epoch[w] = start_epoch[w]

\* the loop allocates, or has allocated, a queue by the end of epoch e
QueueAllocatedBy(e) ==
    /\ TruncatedQueueLength(cfg.queue_length, cfg.batch_size, WORLD_SIZE) > 0
    /\ e >= cfg.epoch_queue_starts

\* C17: in a dump_path without a queue file at the first launch, after an
\* interruption at any point and a restart with the same configuration the
\* queue file the worker loads was written at the end of the epoch just before
\* the restored epoch counter, and when the restored counter says that an
\* epoch with an allocated queue has completed, the worker finds that epoch's
\* queue file.
C17_SameBoundary ==
    \A w \in Workers :
        JustStarted(w) /\ restarts > 0 =>
            /\ (queue[w] # None => qepoch[rank[w]] = start_epoch[w] - 1)
            /\ (start_epoch[w] >= 1 /\ QueueAllocatedBy(start_epoch[w] - 1) =>
                    /\ queue[w] # None
                    /\ qepoch[rank[w]] = start_epoch[w] - 1)

====
